---- MODULE Spec2Model ----
(***************************************************************************)
(* A model of atlas_scripts/catlas.py, the script that packages the CSL    *)
(* cat atlas: download_resources, retrieve_template_and_annotations,       *)
(* retrieve_structure_information, extract_mesh_from_vtk and the call of   *)
(* wrapup_atlas_from_data, run as the module-level pipeline.               *)
(*                                                                         *)
(* Python values are modelled as follows.  A str that the code slices      *)
(* (a mesh file name, a mesh index) is a sequence of one-character         *)
(* strings; a str that is only compared is a TLA+ string.  A list is a     *)
(* sequence, a dict a function, a DataFrame a sequence of records.  A      *)
(* name that is not bound yet (or None) is the empty set, a bound name     *)
(* the singleton of its value.                                             *)
(***************************************************************************)
EXTENDS Integers, Sequences, FiniteSets, TLC

VARIABLES
    internet,               \* whether the connectivity probe succeeds
    remote,                 \* file name -> content served under ATLAS_FILE_URL
    name_csv,               \* rows of the hand-authored name CSV
    listing,                \* os.listdir(mesh_folder_path)
    fs,                     \* download folder: local path -> content
    meshfs,                 \* mesh_save_folder: output path -> mesh
    pc,                     \* position of the module-level pipeline
    stages,                 \* the calls the pipeline has made, in order
    checks,                 \* calls of check_internet_connection
    retrieved,              \* calls of pooch.retrieve, in order
    file_path_list,         \* download_resources' local list
    local_file_path_list,   \* module-level result of download_resources
    reads,                  \* local paths whose content has been loaded
    template_volume,
    reference_volume,
    labels_df,              \* labels_df after add_rgb_col_and_heirarchy
    structures,             \* structures_dict inside retrieve_structure_information
    structures_dict,        \* module-level structures_dict
    structures_tree,
    mpc,                    \* position inside extract_mesh_from_vtk
    idx,                    \* position of the for loop in the listing
    mesh_dict,              \* extract_mesh_from_vtk's local dict
    loaded,                 \* file names handed to Mesh(...)
    written,                \* per call, the write(mesh, path) calls made
    meshfs0,                \* mesh_save_folder as it was when the call began
    returned,               \* the dicts extract_mesh_from_vtk has returned
    meshes_dict,            \* module-level meshes_dict
    packaged                \* keyword arguments received by wrapup_atlas_from_data

vars == << internet, remote, name_csv, listing, fs, meshfs, pc, stages, checks,
           retrieved, file_path_list, local_file_path_list, reads,
           template_volume, reference_volume, labels_df, structures,
           structures_dict, structures_tree, mpc, idx, mesh_dict, loaded,
           written, meshfs0, returned, meshes_dict, packaged >>

None == {}

Some(v) == {v}

The(s) == CHOOSE v \in s : TRUE

Min(a, b) == IF a < b THEN a ELSE b

Max(a, b) == IF a > b THEN a ELSE b

----------------------------------------------------------------------------
(* Metadata *)

ROOT_ID == 997

ATLAS_FILE_URL == "https://raw.githubusercontent.com/CerebralSystemsLab/CATLAS/main/SlicerFiles/"

file_hash_list ==
    << << "meanBrain.nii", "md5:84e0d950474bd6c2a4bcebecd0e02ce7" >>,
       << "CorticalAtlas.nii", "md5:942bbe2483c1d272434b4fd8f8df606f" >>,
       << "CATLAS_COLORS.txt", "md5:5a48c961ebc1bbc2adb821be173b03e4" >>,
       << "CorticalAtlas-Split.nii", "md5:7e883fefb60a289c70c4e5553c2c1f6a" >>,
       << "CATLAS_COLORS-SPLIT.txt", "md5:ff80025b82b51c263ac2d1bfa3b8ae6b" >> >>

FileNames == { file_hash_list[k][1] : k \in 1..Len(file_hash_list) }

KnownHash(file) ==
    LET k == CHOOSE j \in 1..Len(file_hash_list) : file_hash_list[j][1] = file
    IN  file_hash_list[k][2]

----------------------------------------------------------------------------
(* download_resources *)

\* check_internet_connection() with its defaults: it returns when the probe
\* succeeds and raises ConnectionError when it does not.
check_internet_connection(ok) == IF ok THEN "returned" ELSE "raised"

\* pooch.retrieve(url, known_hash, path): the file is stored under path with a
\* name made from the url, and its checksum is compared with known_hash.
CachedFile(url, file, dir) == [ dir |-> dir, of_url |-> url, fname |-> file ]

HashMatches(content, known_hash) == content.md5 = known_hash

\* DownloadCheck with the outcome of the check ignored.
DownloadCheckMutant ==
    /\ pc = "start"
    /\ stages' = Append(stages, "download_resources")
    /\ checks' = checks + 1
    /\ file_path_list' = << >>
    /\ pc' = "retrieve"
    /\ UNCHANGED << internet, remote, name_csv, listing, fs, meshfs, retrieved,
                    local_file_path_list, reads, template_volume,
                    reference_volume, labels_df, structures, structures_dict,
                    structures_tree, mpc, idx, mesh_dict, loaded, written,
                    meshfs0, returned, meshes_dict, packaged >>

\* Lines 34-41: the folders are made, the connection is checked, the list starts
\* empty.  An exception of the check ends the script.
DownloadCheck ==
    /\ pc = "start"
    /\ stages' = Append(stages, "download_resources")
    /\ checks' = checks + 1
    /\ IF check_internet_connection(internet) = "returned"
         THEN /\ file_path_list' = << >>
              /\ pc' = "retrieve"
         ELSE /\ file_path_list' = file_path_list
              /\ pc' = "raised"
    /\ UNCHANGED << internet, remote, name_csv, listing, fs, meshfs, retrieved,
                    local_file_path_list, reads, template_volume,
                    reference_volume, labels_df, structures, structures_dict,
                    structures_tree, mpc, idx, mesh_dict, loaded, written,
                    meshfs0, returned, meshes_dict, packaged >>

\* The (file, hash) pair the k-th iteration of the loop at line 50 unpacks.
LoopPair(k) == << file_hash_list[k][1], file_hash_list[k][2] >>

\* Lines 50-54: one iteration of the download loop.  A checksum mismatch raises
\* and ends the script.
DownloadRetrieve ==
    /\ pc = "retrieve"
    /\ Len(file_path_list) < Len(file_hash_list)
    /\ LET k    == Len(file_path_list) + 1
           file == LoopPair(k)[1]
           hash == LoopPair(k)[2]
           url  == << ATLAS_FILE_URL, file >>
           cached_file == CachedFile(url, file, "download_dir/atlas_dir")
       IN  /\ retrieved' = Append(retrieved, [ url |-> url, known_hash |-> hash ])
           /\ IF HashMatches(remote[file], hash)
                THEN /\ fs' = [ p \in DOMAIN fs \cup { cached_file } |->
                                  IF p = cached_file THEN remote[file] ELSE fs[p] ]
                     /\ file_path_list' = Append(file_path_list, cached_file)
                     /\ pc' = pc
                ELSE /\ fs' = fs
                     /\ file_path_list' = file_path_list
                     /\ pc' = "raised"
    /\ UNCHANGED << internet, remote, name_csv, listing, meshfs, stages, checks,
                    local_file_path_list, reads, template_volume,
                    reference_volume, labels_df, structures, structures_dict,
                    structures_tree, mpc, idx, mesh_dict, loaded, written,
                    meshfs0, returned, meshes_dict, packaged >>

\* Lines 56 and 219: the list is returned and bound at module level.
DownloadReturn ==
    /\ pc = "retrieve"
    /\ Len(file_path_list) = Len(file_hash_list)
    /\ local_file_path_list' = Some(file_path_list)
    /\ pc' = "volumes"
    /\ UNCHANGED << internet, remote, name_csv, listing, fs, meshfs, stages,
                    checks, retrieved, file_path_list, reads, template_volume,
                    reference_volume, labels_df, structures, structures_dict,
                    structures_tree, mpc, idx, mesh_dict, loaded, written,
                    meshfs0, returned, meshes_dict, packaged >>

----------------------------------------------------------------------------
(* retrieve_template_and_annotations *)

\* load_nii(path, as_array=True): the voxel array of the image stored at path.
load_nii(path) == [ array_of |-> fs[path].file, voxels |-> fs[path].body ]

TemplatePositionMutant == 1 + 1

TemplatePosition == 1

AnnotationPosition == 2

LabelsPosition == 3

\* Lines 70-72 and 220-222.
RetrieveTemplateAndAnnotations ==
    /\ pc = "volumes"
    /\ stages' = Append(stages, "retrieve_template_and_annotations")
    /\ LET paths == The(local_file_path_list)
       IN  /\ template_volume' = Some(load_nii(paths[TemplatePosition]))
           /\ reference_volume' = Some(load_nii(paths[AnnotationPosition]))
           /\ reads' = reads \cup { paths[TemplatePosition], paths[AnnotationPosition] }
    /\ pc' = "structures"
    /\ UNCHANGED << internet, remote, name_csv, listing, fs, meshfs, checks,
                    retrieved, file_path_list, local_file_path_list, labels_df,
                    structures, structures_dict, structures_tree, mpc, idx,
                    mesh_dict, loaded, written, meshfs0, returned, meshes_dict,
                    packaged >>

----------------------------------------------------------------------------
(* retrieve_structure_information *)

\* pd.read_csv(file_path_list[2], sep=r"\s+", skiprows=2, header=None,
\* names=label_df_col): the lines after the first two, one row per line.
ReadLabels(lines) ==
    [ k \in 1..Max(0, Len(lines) - 2) |->
        [ id      |-> lines[k + 2][1],
          acronym |-> lines[k + 2][2],
          r       |-> lines[k + 2][3],
          g       |-> lines[k + 2][4],
          b       |-> lines[k + 2][5],
          alpha   |-> lines[k + 2][6] ] ]

\* pd.read_csv(csv_of_full_name, names=full_name_df_col): one row per line.
ReadNames(lines) ==
    [ k \in 1..Len(lines) |-> [ acronym |-> lines[k][1], name |-> lines[k][2] ] ]

\* A missing value of the merged name column.
NaN == "NaN"

add_heirarchy(labels_df_row) == << ROOT_ID, labels_df_row.id >>

\* Line 93: new_rgb_row.
NewRgbRowMutant(row) == << row.r, row.g, row.b, row.alpha >>

NewRgbRow(row) == << row.r, row.g, row.b >>

add_rgb_col_and_heirarchy(df) ==
    [ k \in 1..Len(df) |->
        [ id                |-> df[k].id,
          acronym           |-> df[k].acronym,
          rgb_triplet       |-> NewRgbRow(df[k]),
          structure_id_path |-> add_heirarchy(df[k]) ] ]

root_id_row ==
    [ id                |-> 997,
      acronym           |-> "root",
      structure_id_path |-> << 997 >>,
      rgb_triplet       |-> << 255, 255, 255 >> ]

\* pd.concat([root_id_row, labels_df.loc[:]]).reset_index(drop=True)
CompleteLabels(df) == << root_id_row >> \o df

\* One row of structure_info_mix[combined_df_col].
Combined(row, name) ==
    [ id                |-> row.id,
      name              |-> name,
      acronym           |-> row.acronym,
      structure_id_path |-> row.structure_id_path,
      rgb_triplet       |-> row.rgb_triplet ]

\* The rows a left row contributes to pd.merge(..., on="acronym", how="left"):
\* one per right row with its acronym, in the right frame's order, and one with
\* a missing name when there is none.
MergeRowInner(row, full_name_df) ==
    LET m == SelectSeq(full_name_df, LAMBDA x : x.acronym = row.acronym)
    IN  [ k \in 1..Len(m) |-> Combined(row, m[k].name) ]

MergeRow(row, full_name_df) ==
    LET m == SelectSeq(full_name_df, LAMBDA x : x.acronym = row.acronym)
    IN  IF m = << >>
          THEN << Combined(row, NaN) >>
          ELSE [ k \in 1..Len(m) |-> Combined(row, m[k].name) ]

RECURSIVE MergeLeft(_, _)
MergeLeft(left, full_name_df) ==
    IF left = << >>
      THEN << >>
      ELSE MergeRow(Head(left), full_name_df) \o MergeLeft(Tail(left), full_name_df)

\* Lines 127-166: both files are read, the label rows reshaped, the root row put
\* first and the names merged in.
StructureMerge ==
    /\ pc = "structures"
    /\ stages' = Append(stages, "retrieve_structure_information")
    /\ LET paths == The(local_file_path_list)
           df    == add_rgb_col_and_heirarchy(ReadLabels(fs[paths[LabelsPosition]].body))
       IN  /\ reads' = reads \cup { paths[LabelsPosition] }
           /\ labels_df' = Some(df)
           /\ structures' = Some(MergeLeft(CompleteLabels(df), ReadNames(name_csv)))
    /\ pc' = "tree"
    /\ UNCHANGED << internet, remote, name_csv, listing, fs, meshfs, checks,
                    retrieved, file_path_list, local_file_path_list,
                    template_volume, reference_volume, structures_dict,
                    structures_tree, mpc, idx, mesh_dict, loaded, written,
                    meshfs0, returned, meshes_dict, packaged >>

\* get_structures_tree(structures_dict): a node per structure under the parent
\* its path names.  Whether a repeated id is accepted is not stated, so both
\* outcomes are kept for such a list.
TreeParent(s) ==
    IF Len(s.structure_id_path) > 1
      THEN Some(s.structure_id_path[Len(s.structure_id_path) - 1])
      ELSE None

get_structures_tree(structures_list) ==
    { [ id |-> structures_list[k].id, parent |-> TreeParent(structures_list[k]) ] :
        k \in 1..Len(structures_list) }

TreeOutcomes(structures_list) ==
    IF \A j, k \in 1..Len(structures_list) :
           structures_list[j].id = structures_list[k].id => j = k
      THEN { "returned" }
      ELSE { "returned", "raised" }

\* Where the pipeline continues once the structure table is bound (line 227).
AfterStructuresMutant == "wrapup"

AfterStructures == "meshes"

\* Lines 168-169 and 224-226.
StructureTree ==
    /\ pc = "tree"
    /\ \E outcome \in TreeOutcomes(The(structures)) :
         IF outcome = "returned"
           THEN /\ structures_tree' = Some(get_structures_tree(The(structures)))
                /\ structures_dict' = structures
                /\ pc' = AfterStructures
           ELSE /\ UNCHANGED << structures_tree, structures_dict >>
                /\ pc' = "raised"
    /\ UNCHANGED << internet, remote, name_csv, listing, fs, meshfs, stages,
                    checks, retrieved, file_path_list, local_file_path_list,
                    reads, template_volume, reference_volume, labels_df,
                    structures, mpc, idx, mesh_dict, loaded, written, meshfs0,
                    returned, meshes_dict, packaged >>

----------------------------------------------------------------------------
(* extract_mesh_from_vtk *)

DotVtk == << ".", "v", "t", "k" >>

DotObj == << ".", "o", "b", "j" >>

A_32_Cerebelum ==
    << "A", "_", "3", "2", "_", "C", "e", "r", "e", "b", "e", "l", "u", "m" >> \o DotVtk

A_36_pPE == << "A", "_", "3", "6", "_", "p", "P", "E" >> \o DotVtk

\* vtk_file[-4:]
LastFour(s) == SubSeq(s, Max(1, Len(s) - 3), Len(s))

\* Lines 176-181: the files the loop passes over.
IsSkippedMutant(vtk_file) ==
    \/ LastFour(vtk_file) # DotVtk
    \/ vtk_file = A_32_Cerebelum

IsSkipped(vtk_file) ==
    \/ LastFour(vtk_file) # DotVtk
    \/ vtk_file = A_32_Cerebelum
    \/ vtk_file = A_36_pPE

\* Lines 182-187: Mesh(mesh_folder_path + vtk_file), then triangulate,
\* decimate_pro(0.6) and smooth.
Converted(vtk_file) ==
    [ from |-> vtk_file, ops |-> << "triangulate", "decimate_pro", "smooth" >> ]

\* Lines 189-191: vtk_file[2:4], or vtk_file[2] when that slice ends in "_".
MeshIndex(vtk_file) ==
    LET index == SubSeq(vtk_file, 3, Min(4, Len(vtk_file)))
    IN  IF index[Len(index)] = "_" THEN << vtk_file[3] >> ELSE index

\* Lines 193-194: str(mesh_save_folder / (index + ".obj"))
MeshFilePath(index) == [ folder |-> "meshes", name |-> index \o DotObj ]

\* Line 197: not Path(file_path).exists()
ShouldWriteInverted(file_path, files) == file_path \in DOMAIN files

ShouldWriteAlways(file_path, files) == TRUE

ShouldWrite(file_path, files) == file_path \notin DOMAIN files

EmptyDict == [ k \in {} |-> None ]

SetItem(d, key, value) ==
    [ k \in DOMAIN d \cup { key } |-> IF k = key THEN value ELSE d[k] ]

\* Lines 173-174: the dict starts empty and the folder is listed.
MeshBegin ==
    /\ mpc = "idle"
    /\ mesh_dict' = EmptyDict
    /\ idx' = 1
    /\ written' = Append(written, << >>)
    /\ meshfs0' = meshfs
    /\ mpc' = "loop"

\* Line 227: the pipeline's call.
ExtractMeshCall ==
    /\ pc = "meshes"
    /\ MeshBegin
    /\ stages' = Append(stages, "extract_mesh_from_vtk")
    /\ pc' = "in_meshes"
    /\ UNCHANGED << internet, remote, name_csv, listing, fs, meshfs, checks,
                    retrieved, file_path_list, local_file_path_list, reads,
                    template_volume, reference_volume, labels_df, structures,
                    structures_dict, structures_tree, loaded, returned,
                    meshes_dict, packaged >>

\* Lines 175-200: one iteration of the loop over the listing.
ExtractMeshStep ==
    /\ mpc = "loop"
    /\ idx <= Len(listing)
    /\ idx' = idx + 1
    /\ LET vtk_file  == listing[idx]
           mesh      == Converted(vtk_file)
           index     == MeshIndex(vtk_file)
           file_path == MeshFilePath(index)
       IN  IF IsSkipped(vtk_file)
             THEN UNCHANGED << loaded, mesh_dict, meshfs, written >>
             ELSE /\ loaded' = loaded \cup { vtk_file }
                  /\ mesh_dict' = SetItem(mesh_dict, index, file_path)
                  /\ IF ShouldWrite(file_path, meshfs)
                       THEN /\ meshfs' = SetItem(meshfs, file_path, mesh)
                            /\ written' =
                                 [ written EXCEPT ![Len(written)] =
                                     Append(@, [ mesh |-> mesh, path |-> file_path ]) ]
                       ELSE UNCHANGED << meshfs, written >>
    /\ UNCHANGED << internet, remote, name_csv, listing, fs, pc, stages, checks,
                    retrieved, file_path_list, local_file_path_list, reads,
                    template_volume, reference_volume, labels_df, structures,
                    structures_dict, structures_tree, mpc, meshfs0, returned,
                    meshes_dict, packaged >>

\* Lines 202 and 227: the dict is returned; the pipeline binds it.
ExtractMeshReturn ==
    /\ mpc = "loop"
    /\ idx > Len(listing)
    /\ returned' = Append(returned, mesh_dict)
    /\ mpc' = "idle"
    /\ IF pc = "in_meshes"
         THEN /\ meshes_dict' = Some(mesh_dict)
              /\ pc' = "wrapup"
         ELSE UNCHANGED << meshes_dict, pc >>
    /\ UNCHANGED << internet, remote, name_csv, listing, fs, meshfs, stages,
                    checks, retrieved, file_path_list, local_file_path_list,
                    reads, template_volume, reference_volume, labels_df,
                    structures, structures_dict, structures_tree, idx,
                    mesh_dict, loaded, written, meshfs0, packaged >>

\* A further call of extract_mesh_from_vtk(mesh_folder_path) on the same folder.
MaxRuns == 2

ExtractMeshAgain ==
    /\ pc = "harness"
    /\ Len(returned) < MaxRuns
    /\ MeshBegin
    /\ UNCHANGED << internet, remote, name_csv, listing, fs, meshfs, pc, stages,
                    checks, retrieved, file_path_list, local_file_path_list,
                    reads, template_volume, reference_volume, labels_df,
                    structures, structures_dict, structures_tree, loaded,
                    returned, meshes_dict, packaged >>

----------------------------------------------------------------------------
(* packaging *)

\* Lines 228-246: the keyword arguments that carry data, as bound at the call.
Wrapup ==
    /\ pc = "wrapup"
    /\ stages' = Append(stages, "wrapup_atlas_from_data")
    /\ packaged' = Some([ root_id          |-> ROOT_ID,
                          reference_stack  |-> template_volume,
                          annotation_stack |-> reference_volume,
                          structures_list  |-> structures_dict,
                          meshes_dict      |-> meshes_dict ])
    /\ pc' = "done"
    /\ UNCHANGED << internet, remote, name_csv, listing, fs, meshfs, checks,
                    retrieved, file_path_list, local_file_path_list, reads,
                    template_volume, reference_volume, labels_df, structures,
                    structures_dict, structures_tree, mpc, idx, mesh_dict,
                    loaded, written, meshfs0, returned, meshes_dict >>

----------------------------------------------------------------------------
(* The inputs the script meets *)

MaxRows == 2

MaxNames == 2

MaxFiles == 2

BoundedSeq(S, n) == UNION { [ 1..k -> S ] : k \in 0..n }

Distinct(s) == \A j, k \in 1..Len(s) : s[j] = s[k] => j = k

\* Rows of a colour table: id, acronym, r, g, b, alpha.
LabelRowPool ==
    { << 1, "A1", 10, 20, 30, 255 >>,
      << 2, "A2", 40, 50, 60, 0 >>,
      << 3, "A1", 70, 80, 90, 255 >> }

LabelHeader == << << "#", "colour", "table" >>, << "#", "id", "acronym", "r", "g", "b", "alpha" >> >>

NamePool ==
    { << "A1", "Primary auditory cortex" >>,
      << "A1", "Auditory area 1" >>,
      << "A2", "Second auditory cortex" >>,
      << "root", "Whole brain" >> }

A_3_x == << "A", "_", "3", "_", "x" >> \o DotVtk

A_3_y == << "A", "_", "3", "_", "y" >> \o DotVtk

A_12_z == << "A", "_", "1", "2", "_", "z" >> \o DotVtk

A_100_w == << "A", "_", "1", "0", "0", "_", "w" >> \o DotVtk

NotesTxt == << "n", ".", "t", "x", "t" >>

ShortName == << "v", "t", "k" >>

MeshFilePool ==
    { A_3_x, A_3_y, A_12_z, A_100_w, A_32_Cerebelum, A_36_pPE, NotesTxt, ShortName }

StaleMesh == [ from |-> << "o", "l", "d" >>, ops |-> << >> ]

ObjPath(digits) == [ folder |-> "meshes", name |-> digits \o << ".", "o", "b", "j" >> ]

StalePaths == { ObjPath(<< "3" >>), ObjPath(<< "1", "0" >>), ObjPath(<< "3", "6" >>) }

WrongHash == "md5:00000000000000000000000000000000"

\* What the server holds: every file of the list, the colour table with the
\* given rows, and a checksum that differs from the known one for the files in
\* corrupt.
Remote(rows, corrupt) ==
    [ f \in FileNames |->
        [ file |-> f,
          md5  |-> IF f \in corrupt THEN WrongHash ELSE KnownHash(f),
          body |-> IF f = "CATLAS_COLORS.txt" THEN LabelHeader \o rows
                   ELSE << "voxels", f >> ] ]

StaleFiles(paths) == [ p \in paths |-> StaleMesh ]

InitWith(internets, remotes, csvs, listings, meshdirs, pc0) ==
    /\ internet \in internets
    /\ remote \in remotes
    /\ name_csv \in csvs
    /\ listing \in listings
    /\ meshfs \in meshdirs
    /\ fs = EmptyDict
    /\ pc = pc0
    /\ stages = << >>
    /\ checks = 0
    /\ retrieved = << >>
    /\ file_path_list = << >>
    /\ local_file_path_list = None
    /\ reads = {}
    /\ template_volume = None
    /\ reference_volume = None
    /\ labels_df = None
    /\ structures = None
    /\ structures_dict = None
    /\ structures_tree = None
    /\ mpc = "idle"
    /\ idx = 1
    /\ mesh_dict = EmptyDict
    /\ loaded = {}
    /\ written = << >>
    /\ meshfs0 = meshfs
    /\ returned = << >>
    /\ meshes_dict = None
    /\ packaged = None

SomeRows == << << 1, "A1", 10, 20, 30, 255 >>, << 2, "A2", 40, 50, 60, 0 >> >>

SomeNames == << << "A2", "Second auditory cortex" >> >>

\* The script run once, with or without a connection, with any of the files
\* damaged on the server.
Init ==
    InitWith(BOOLEAN,
             { Remote(rows, corrupt) : rows \in { << >>, SomeRows },
                                       corrupt \in SUBSET FileNames },
             { << >>, SomeNames },
             { << >>, << A_12_z, NotesTxt, A_3_x >>, << A_36_pPE, A_3_y >> },
             { StaleFiles({}), StaleFiles({ ObjPath(<< "3" >>) }) },
             "start")

\* The script run once over any colour table and any name CSV.
InitStruct ==
    InitWith({ TRUE },
             { Remote(rows, {}) : rows \in BoundedSeq(LabelRowPool, MaxRows) },
             BoundedSeq(NamePool, MaxNames),
             { << A_3_x >> },
             { StaleFiles({}) },
             "start")

\* extract_mesh_from_vtk called on any folder, with any of the output files
\* already there.
InitMesh ==
    InitWith({ TRUE },
             { Remote(<< >>, {}) },
             { << >> },
             { s \in BoundedSeq(MeshFilePool, MaxFiles) : Distinct(s) },
             { StaleFiles(paths) : paths \in SUBSET StalePaths },
             "harness")

Next ==
    \/ DownloadCheck
    \/ DownloadRetrieve
    \/ DownloadReturn
    \/ RetrieveTemplateAndAnnotations
    \/ StructureMerge
    \/ StructureTree
    \/ ExtractMeshCall
    \/ ExtractMeshStep
    \/ ExtractMeshReturn
    \/ Wrapup

NextMesh ==
    \/ ExtractMeshAgain
    \/ ExtractMeshStep
    \/ ExtractMeshReturn

Spec == Init /\ [][Next]_vars

SpecStruct == InitStruct /\ [][Next]_vars

SpecMesh == InitMesh /\ [][NextMesh]_vars

----------------------------------------------------------------------------
(* The pipeline: C1, C2, C3 *)

PipelineOrder ==
    << "download_resources", "retrieve_template_and_annotations",
       "retrieve_structure_information", "extract_mesh_from_vtk",
       "wrapup_atlas_from_data" >>

StageCompleted(stage) ==
    CASE stage = "download_resources" -> local_file_path_list # None
      [] stage = "retrieve_template_and_annotations" ->
             template_volume # None /\ reference_volume # None
      [] stage = "retrieve_structure_information" ->
             structures_dict # None /\ structures_tree # None
      [] stage = "extract_mesh_from_vtk" -> meshes_dict # None /\ mpc = "idle"
      [] OTHER -> packaged # None

\* C1: the calls made are a prefix of the five stages in their order (so each
\* runs at most once and in that order), a stage is called only when every
\* stage before it has completed, and so packaging is called only after the
\* four earlier stages have completed.
C1_LinearPipeline ==
    /\ Len(stages) <= Len(PipelineOrder)
    /\ \A k \in 1..Len(stages) : stages[k] = PipelineOrder[k]
    /\ \A k \in 1..(Len(stages) - 1) : StageCompleted(stages[k])
    /\ packaged # None =>
         /\ stages = PipelineOrder
         /\ \A k \in 1..Len(stages) : StageCompleted(stages[k])

C1_Witness == pc = "done" /\ stages = PipelineOrder /\ packaged # None

LaterStagesUntouched ==
    /\ local_file_path_list = None
    /\ template_volume = None
    /\ reference_volume = None
    /\ labels_df = None
    /\ structures = None
    /\ structures_dict = None
    /\ structures_tree = None
    /\ meshes_dict = None
    /\ returned = << >>
    /\ loaded = {}
    /\ packaged = None

\* C2: the connectivity check is made once, no file is retrieved before it, and
\* when it fails no file is retrieved, download_resources returns no list and
\* no later stage runs.
C2_CheckBeforeRetrieval ==
    /\ checks <= 1
    /\ pc # "start" => checks = 1
    /\ retrieved # << >> => checks = 1 /\ internet
    /\ (checks = 1 /\ ~internet) =>
         /\ retrieved = << >>
         /\ fs = EmptyDict
         /\ stages = << "download_resources" >>
         /\ LaterStagesUntouched

C2_Witness == checks = 1 /\ ~internet /\ pc = "raised"

ColourTableLines == remote["CATLAS_COLORS.txt"].body

\* C3: the k-th retrieval asks for the k-th file of the list with the k-th
\* checksum, the returned list holds the five local files in that order, the
\* template handed to packaging as reference_stack is the image meanBrain.nii,
\* the annotation handed over as annotation_stack is CorticalAtlas.nii, the
\* label rows are those of CATLAS_COLORS.txt, and nothing else is loaded.
C3_FilesAndRoles ==
    /\ \A k \in 1..Len(retrieved) :
         /\ retrieved[k].url = << ATLAS_FILE_URL, file_hash_list[k][1] >>
         /\ retrieved[k].known_hash = file_hash_list[k][2]
    /\ local_file_path_list # None =>
         /\ Len(retrieved) = Len(file_hash_list)
         /\ Len(The(local_file_path_list)) = Len(file_hash_list)
         /\ \A k \in 1..Len(file_hash_list) :
              /\ The(local_file_path_list)[k] \in DOMAIN fs
              /\ fs[The(local_file_path_list)[k]] = remote[file_hash_list[k][1]]
    /\ packaged # None =>
         /\ The(The(packaged).reference_stack).array_of = "meanBrain.nii"
         /\ The(The(packaged).reference_stack).voxels = remote["meanBrain.nii"].body
         /\ The(The(packaged).annotation_stack).array_of = "CorticalAtlas.nii"
         /\ The(The(packaged).annotation_stack).voxels = remote["CorticalAtlas.nii"].body
    /\ labels_df # None =>
         /\ Len(The(labels_df)) = Len(ColourTableLines) - 2
         /\ \A k \in 1..Len(The(labels_df)) :
              The(labels_df)[k].id = ColourTableLines[k + 2][1]
    /\ \A p \in reads :
         fs[p].file \in { "meanBrain.nii", "CorticalAtlas.nii", "CATLAS_COLORS.txt" }

C3_Witness ==
    /\ pc = "done"
    /\ packaged # None
    /\ Len(The(labels_df)) = 2
    /\ Cardinality(reads) = 3
    /\ Cardinality(DOMAIN fs) = 5

----------------------------------------------------------------------------
(* The structure table: C4, C5, C8 *)

\* The k-th data line of the colour table, the first two lines being skipped.
LabelLine(k) == ColourTableLines[k + 2]

LabelCount == Len(ColourTableLines) - 2

\* C4: the reshaped table has one row per label row, in the same order, with
\* that row's id and acronym, rgb_triplet [r, g, b], structure_id_path
\* [997, id], and no column r, g, b or alpha.
C4_RgbAndHierarchy ==
    labels_df # None =>
        /\ Len(The(labels_df)) = LabelCount
        /\ \A k \in 1..LabelCount :
             /\ DOMAIN The(labels_df)[k] =
                    { "id", "acronym", "rgb_triplet", "structure_id_path" }
             /\ The(labels_df)[k].id = LabelLine(k)[1]
             /\ The(labels_df)[k].acronym = LabelLine(k)[2]
             /\ The(labels_df)[k].rgb_triplet =
                    << LabelLine(k)[3], LabelLine(k)[4], LabelLine(k)[5] >>
             /\ The(labels_df)[k].structure_id_path = << 997, LabelLine(k)[1] >>

C4_Witness ==
    /\ labels_df # None
    /\ Len(The(labels_df)) = 2
    /\ The(labels_df)[1].id # The(labels_df)[2].id
    /\ LabelLine(1)[6] # LabelLine(2)[6]

\* C5: in the structure table the path of a row lists the row's ancestors only:
\* the root row has the path [] and every row directly under the root [997].
C5_DocumentedPaths ==
    structures_dict # None =>
        \A k \in 1..Len(The(structures_dict)) :
            The(structures_dict)[k].structure_id_path =
                IF The(structures_dict)[k].id = 997 THEN << >> ELSE << 997 >>

\* The rows the names are joined to: the root row, then the label rows.
LeftCount == LabelCount + 1

LeftId(j) == IF j = 1 THEN 997 ELSE LabelLine(j - 1)[1]

LeftAcronym(j) == IF j = 1 THEN "root" ELSE LabelLine(j - 1)[2]

\* The lines of the name CSV that carry the acronym, in the CSV's order.
NameLines(acronym) == { j \in 1..Len(name_csv) : name_csv[j][1] = acronym }

NthNameLine(acronym, m) ==
    CHOOSE j \in NameLines(acronym) :
        Cardinality({ i \in NameLines(acronym) : i <= j }) = m

Copies(j) == Max(1, Cardinality(NameLines(LeftAcronym(j))))

RECURSIVE RowsBefore(_)
RowsBefore(j) == IF j <= 1 THEN 0 ELSE RowsBefore(j - 1) + Copies(j - 1)

OneRowPerLabelRow(list) ==
    /\ Len(list) = LeftCount
    /\ \A j \in 1..LeftCount :
         /\ list[j].id = LeftId(j)
         /\ list[j].acronym = LeftAcronym(j)
         /\ NameLines(LeftAcronym(j)) = {} => list[j].name = NaN

\* C8 as stated: the joined list, and so the list handed to packaging, is the
\* root row followed by one row per label row, in order, a row without a name
\* entry having no name, whatever the name CSV holds.
C8_OneRowPerLabelRow ==
    /\ structures # None => OneRowPerLabelRow(The(structures))
    /\ packaged # None => OneRowPerLabelRow(The(The(packaged).structures_list))

IsJoinOf(list) ==
    /\ Len(list) = RowsBefore(LeftCount + 1)
    /\ \A j \in 1..LeftCount : \A m \in 1..Copies(j) :
         /\ list[RowsBefore(j) + m].id = LeftId(j)
         /\ list[RowsBefore(j) + m].acronym = LeftAcronym(j)
         /\ list[RowsBefore(j) + m].structure_id_path =
                IF j = 1 THEN << 997 >> ELSE << 997, LeftId(j) >>
         /\ list[RowsBefore(j) + m].name =
                IF NameLines(LeftAcronym(j)) = {}
                  THEN NaN
                  ELSE name_csv[NthNameLine(LeftAcronym(j), m)][2]

\* C8 as amended: the joined list, and the list handed to packaging, hold the
\* root row and then the label rows in order, a row appearing once without a
\* name when the CSV has no line for its acronym, and otherwise once per CSV
\* line with its acronym, in the CSV's order, with that line's name; so the
\* list is the root row and one row per label row when no acronym is repeated
\* in the CSV.
C8_JoinKeepsOrder ==
    /\ structures # None => IsJoinOf(The(structures))
    /\ packaged # None =>
         /\ IsJoinOf(The(The(packaged).structures_list))
         /\ (\A j \in 1..LeftCount : Cardinality(NameLines(LeftAcronym(j))) <= 1) =>
              /\ Len(The(The(packaged).structures_list)) = LeftCount
              /\ \A j \in 1..LeftCount :
                   The(The(packaged).structures_list)[j].id = LeftId(j)

C8_Witness ==
    /\ packaged # None
    /\ LabelCount = 2
    /\ Cardinality(NameLines(LeftAcronym(2))) = 2
    /\ NameLines(LeftAcronym(3)) = {}
    /\ Len(The(The(packaged).structures_list)) = 4

----------------------------------------------------------------------------
(* The meshes: C6, C7, C9, C10 *)

\* The files the loop is to pass over: a name that does not end in ".vtk" and
\* the two known duplicates.
KnownSkip(f) ==
    \/ Len(f) < 4
    \/ << f[Len(f) - 3], f[Len(f) - 2], f[Len(f) - 1], f[Len(f)] >> # << ".", "v", "t", "k" >>
    \/ f = A_32_Cerebelum
    \/ f = A_36_pPE

AtFile == mpc = "loop" /\ idx <= Len(listing)

\* C6: a file to pass over is never loaded and never the source of a written
\* mesh, and the iteration that meets it leaves the dict, the output folder and
\* the write calls as they were.
C6_SkipsKnownDuplicates ==
    /\ [](\A f \in loaded : ~KnownSkip(f))
    /\ [](\A r \in 1..Len(written) : \A w \in 1..Len(written[r]) :
             ~KnownSkip(written[r][w].mesh.from))
    /\ [][(AtFile /\ KnownSkip(listing[idx])) =>
             /\ mesh_dict' = mesh_dict
             /\ meshfs' = meshfs
             /\ written' = written
             /\ loaded' = loaded]_vars

C6_Witness ==
    /\ Len(returned) = 1
    /\ listing = << A_36_pPE, A_12_z >>
    /\ loaded = { A_12_z }
    /\ DOMAIN returned[1] = { << "1", "2" >> }

Digits == { "0", "1", "2", "3", "4", "5", "6", "7", "8", "9" }

\* A_<n>_<name>.vtk: the position of the "_" that ends <n>, or 0.
IndexEnd(f) ==
    IF /\ Len(f) > 4
       /\ f[1] = "A"
       /\ f[2] = "_"
       /\ \E e \in 4..Len(f) : f[e] = "_" /\ \A j \in 3..(e - 1) : f[j] \in Digits
      THEN CHOOSE e \in 4..Len(f) : f[e] = "_" /\ \A j \in 3..(e - 1) : f[j] \in Digits
      ELSE 0

StructureIndex(f) == SubSeq(f, 3, IndexEnd(f) - 1)

\* C7: the returned dict has, for every processed file A_<n>_<name>.vtk, the
\* key <n> with the value <mesh_save_folder>/<n>.obj.
C7_KeyedByStructureIndex ==
    \A r \in 1..Len(returned) : \A k \in 1..Len(listing) :
        (~KnownSkip(listing[k]) /\ IndexEnd(listing[k]) # 0) =>
            /\ StructureIndex(listing[k]) \in DOMAIN returned[r]
            /\ returned[r][StructureIndex(listing[k])] =
                   ObjPath(StructureIndex(listing[k]))

\* The key the loop files a processed file under.
KeyOf(f) == IF f[4] = "_" THEN << f[3] >> ELSE << f[3], f[4] >>

\* C9: a file that exists in the output folder is never changed; the iteration
\* that processes a file records the entry of its key whether or not it
\* writes; the second call on the same folder writes nothing and returns the
\* dict of the first.
C9_NeverOverwrites ==
    /\ [][\A p \in DOMAIN meshfs : p \in DOMAIN meshfs' /\ meshfs'[p] = meshfs[p]]_vars
    /\ [][(AtFile /\ ~KnownSkip(listing[idx])) =>
             /\ KeyOf(listing[idx]) \in DOMAIN mesh_dict'
             /\ mesh_dict'[KeyOf(listing[idx])] = ObjPath(KeyOf(listing[idx]))]_vars
    /\ [](Len(returned) >= 2 => written[2] = << >> /\ returned[2] = returned[1])

C9_Witness ==
    /\ Len(returned) = 2
    /\ Len(written[1]) = 1
    /\ ObjPath(<< "1", "0" >>) \in DOMAIN meshfs0
    /\ DOMAIN returned[2] = { << "1", "0" >>, << "3" >> }

ExpectedMesh(f) ==
    [ from |-> f, ops |-> << "triangulate", "decimate_pro", "smooth" >> ]

Processed(key) ==
    { k \in 1..Len(listing) : ~KnownSkip(listing[k]) /\ KeyOf(listing[k]) = key }

LastReturned == returned[Len(returned)]

\* C10 as stated: when the call has returned, every path of the dict is a file
\* that exists and holds the mesh converted from a processed file of that key.
C10_HoldsConvertedMesh ==
    (mpc = "idle" /\ returned # << >>) =>
        \A key \in DOMAIN LastReturned :
            /\ LastReturned[key] \in DOMAIN meshfs
            /\ \E k \in Processed(key) :
                 meshfs[LastReturned[key]] = ExpectedMesh(listing[k])

\* C10 as amended: when the call has returned, every path of the dict is a file
\* that exists; a file that was there when the call began is as it was, and
\* any other holds the mesh converted from the first processed file of that
\* key.
C10_ExistsAndFirstWins ==
    (mpc = "idle" /\ returned # << >>) =>
        \A key \in DOMAIN LastReturned :
            /\ LastReturned[key] \in DOMAIN meshfs
            /\ Processed(key) # {}
            /\ IF LastReturned[key] \in DOMAIN meshfs0
                 THEN meshfs[LastReturned[key]] = meshfs0[LastReturned[key]]
                 ELSE \E k \in Processed(key) :
                        /\ \A j \in Processed(key) : k <= j
                        /\ meshfs[LastReturned[key]] = ExpectedMesh(listing[k])

C10_Witness ==
    /\ mpc = "idle"
    /\ Len(returned) = 1
    /\ listing = << A_3_y, A_3_x >>
    /\ DOMAIN meshfs0 = { ObjPath(<< "1", "0" >>) }
    /\ meshfs[ObjPath(<< "3" >>)] = ExpectedMesh(A_3_y)

====
